---- MODULE Spec2Model ----
(***************************************************************************)
(* Model of s3v4 (src/src/lib.rs): AWS Signature Version 4 signing of S3   *)
(* requests and derivation of pre-signed URLs.                             *)
(*                                                                         *)
(* Rust Strings are TLA+ strings; characters are one-character strings     *)
(* obtained with SubSeq.  SHA-256 and HMAC-SHA256 are modelled as          *)
(* collision-free term constructors rendered as text, so two digests are   *)
(* equal exactly when their inputs are equal.  A DateTime<Utc> is a number *)
(* of seconds counted from 2022-02-02T00:00:00Z.                           *)
(***************************************************************************)
EXTENDS Integers, Sequences, FiniteSets, TLC

VARIABLES call, pc, now, st, ret

vars == <<call, pc, now, st, ret>>

(***************************************************************************)
(* Bounds of the model.                                                    *)
(***************************************************************************)
\* Largest number of entries of a HeadersMap passed to sign().
MaxHeaders == 2
\* Number of seconds the clock may advance while signature() runs.
MaxTicks == 2

(***************************************************************************)
(* str / char primitives of the Rust standard library.                     *)
(***************************************************************************)
\* The ASCII characters that occur in the model, in code order; u8 comparison
\* of two characters is comparison of their positions.
AsciiOrder ==
  " %&+,-./0123456789:;<=>?ABCDEFGHIJKLMNOPQRSTUVWXYZ_abcdefghijklmnopqrstuvwxyz|~"

UpperLetters == "ABCDEFGHIJKLMNOPQRSTUVWXYZ"
LowerLetters == "abcdefghijklmnopqrstuvwxyz"
Digits == "0123456789"

CharAt(s, i) == SubSeq(s, i, i)

Rest(s, i) == SubSeq(s, i, Len(s))

\* str::find(c): 1-based index of the first occurrence of character c at or
\* after position i, 0 when there is none.
RECURSIVE FindFrom(_, _, _)
FindFrom(s, c, i) ==
  IF i > Len(s) THEN 0
  ELSE IF CharAt(s, i) = c THEN i
  ELSE FindFrom(s, c, i + 1)

IndexOf(s, c) == FindFrom(s, c, 1)

Contains(s, c) == IndexOf(s, c) # 0

Ord(c) == IndexOf(AsciiOrder, c)

\* char::to_ascii_lowercase / to_lowercase on the ASCII range.
LowerChar(c) ==
  LET i == IndexOf(UpperLetters, c)
  IN IF i = 0 THEN c ELSE CharAt(LowerLetters, i)

\* char::to_uppercase on the ASCII range.
UpperChar(c) ==
  LET i == IndexOf(LowerLetters, c)
  IN IF i = 0 THEN c ELSE CharAt(UpperLetters, i)

RECURSIVE to_lowercase(_)
to_lowercase(s) ==
  IF s = "" THEN "" ELSE LowerChar(CharAt(s, 1)) \o to_lowercase(Rest(s, 2))

RECURSIVE to_uppercase(_)
to_uppercase(s) ==
  IF s = "" THEN "" ELSE UpperChar(CharAt(s, 1)) \o to_uppercase(Rest(s, 2))

starts_with(s, p) == Len(s) >= Len(p) /\ SubSeq(s, 1, Len(p)) = p

RECURSIVE trim_start(_)
trim_start(s) ==
  IF s # "" /\ CharAt(s, 1) = " " THEN trim_start(Rest(s, 2)) ELSE s

\* str::trim_end_matches(c)
RECURSIVE trim_end_matches(_, _)
trim_end_matches(s, c) ==
  IF s # "" /\ CharAt(s, Len(s)) = c
  THEN trim_end_matches(SubSeq(s, 1, Len(s) - 1), c)
  ELSE s

\* str::trim
trim(s) == trim_end_matches(trim_start(s), " ")

\* Ord for str: lexicographic comparison of the bytes.
RECURSIVE StrLess(_, _)
StrLess(a, b) ==
  IF b = "" THEN FALSE
  ELSE IF a = "" THEN TRUE
  ELSE IF CharAt(a, 1) = CharAt(b, 1) THEN StrLess(Rest(a, 2), Rest(b, 2))
  ELSE Ord(CharAt(a, 1)) < Ord(CharAt(b, 1))

\* [String]::join(sep)
RECURSIVE join(_, _)
join(v, sep) ==
  IF Len(v) = 0 THEN ""
  ELSE IF Len(v) = 1 THEN v[1]
  ELSE v[1] \o sep \o join(Tail(v), sep)

\* str::split(c), as a sequence of pieces.
RECURSIVE split(_, _)
split(s, c) ==
  LET i == IndexOf(s, c)
  IN IF i = 0 THEN <<s>>
     ELSE <<SubSeq(s, 1, i - 1)>> \o split(Rest(s, i + 1), c)

(***************************************************************************)
(* BTreeMap<String, String>: a function from its keys to its values,       *)
(* iterated in ascending key order.                                        *)
(***************************************************************************)
EmptyMap == [k \in {} |-> ""]

\* BTreeMap::entry(k).or_insert(v) in place of insert: a present key keeps
\* its value.
insert_keep_present(m, k, v) ==
  [x \in DOMAIN m \cup {k} |-> IF x \in DOMAIN m THEN m[x] ELSE v]

\* BTreeMap::insert: a present key has its value replaced.
insert(m, k, v) == [x \in DOMAIN m \cup {k} |-> IF x = k THEN v ELSE m[x]]

MinStr(S) == CHOOSE a \in S : \A b \in S \ {a} : StrLess(a, b)

RECURSIVE SortedSeq(_)
SortedSeq(S) ==
  IF S = {} THEN <<>>
  ELSE LET a == MinStr(S) IN <<a>> \o SortedSeq(S \ {a})

\* BTreeMap::keys
keys(m) == SortedSeq(DOMAIN m)

\* BTreeMap::insert of each pair of a sequence, in order.
RECURSIVE insert_all(_, _)
insert_all(m, pairs) ==
  IF Len(pairs) = 0 THEN m
  ELSE insert_all(insert(m, pairs[1][1], pairs[1][2]), Tail(pairs))

(***************************************************************************)
(* urlencoding::encode (imported as url_encode).                           *)
(***************************************************************************)
\* Characters that encode() leaves alone: ASCII alphanumerics and - _ . ~
Unreserved == UpperLetters \o LowerLetters \o Digits \o "-_.~"

\* The other characters of the model with their %XX escapes.
Escapes ==
  << <<" ", "%20">>, <<"%", "%25">>, <<"&", "%26">>, <<"+", "%2B">>,
     <<",", "%2C">>, <<"/", "%2F">>, <<":", "%3A">>, <<";", "%3B">>,
     <<"<", "%3C">>, <<"=", "%3D">>, <<">", "%3E">>, <<"?", "%3F">>,
     <<"|", "%7C">> >>

EncodeChar(c) ==
  IF Contains(Unreserved, c) THEN c
  ELSE LET i == CHOOSE j \in 1..Len(Escapes) : Escapes[j][1] = c
       IN Escapes[i][2]

RECURSIVE url_encode(_)
url_encode(s) ==
  IF s = "" THEN "" ELSE EncodeChar(CharAt(s, 1)) \o url_encode(Rest(s, 2))

(***************************************************************************)
(* url::Url.  A parsed URL is a record; ParseUrl is Url::parse on the URLs *)
(* of the model: no userinfo, no fragment, no dot segments, no characters  *)
(* that the parser would percent-encode, ports without leading zeros.      *)
(***************************************************************************)
NoUrl ==
  [scheme |-> "", has_host |-> FALSE, host |-> "", has_port |-> FALSE,
   port |-> "", path |-> "", has_query |-> FALSE, query |-> ""]

\* Schemes with an authority and a default port ("special" schemes).
DefaultPort(scheme) ==
  CASE scheme = "https" -> "443"
    [] scheme = "http" -> "80"
    [] OTHER -> ""

IsSpecial(scheme) == DefaultPort(scheme) # ""

RECURSIVE AllIn(_, _)
AllIn(s, alphabet) ==
  s = "" \/ (Contains(alphabet, CharAt(s, 1)) /\ AllIn(Rest(s, 2), alphabet))

ValidScheme(s) ==
  /\ s # ""
  /\ Contains(UpperLetters \o LowerLetters, CharAt(s, 1))
  /\ AllIn(s, UpperLetters \o LowerLetters \o Digits \o "+-.")

\* Index of the first "/" or "?" of s, Len(s) + 1 when there is none.
AuthorityEnd(s) ==
  LET i == IndexOf(s, "/")
      j == IndexOf(s, "?")
  IN IF i = 0 /\ j = 0 THEN Len(s) + 1
     ELSE IF i = 0 THEN j
     ELSE IF j = 0 THEN i
     ELSE IF i < j THEN i ELSE j

\* Path and query of the text that follows the authority.
PathAndQuery(u, s, special) ==
  LET q == IndexOf(s, "?")
      p == IF q = 0 THEN s ELSE SubSeq(s, 1, q - 1)
  IN [u EXCEPT !.path = IF special /\ p = "" THEN "/" ELSE p,
               !.has_query = (q # 0),
               !.query = IF q = 0 THEN "" ELSE Rest(s, q + 1)]

\* "host[:port]" followed by path and query.
ParseAuthority(scheme, s) ==
  LET e == AuthorityEnd(s)
      auth == SubSeq(s, 1, e - 1)
      c == IndexOf(auth, ":")
      h == IF c = 0 THEN auth ELSE SubSeq(auth, 1, c - 1)
      p == IF c = 0 THEN "" ELSE Rest(auth, c + 1)
      u == [NoUrl EXCEPT !.scheme = scheme, !.has_host = TRUE,
                         !.host = to_lowercase(h),
                         !.has_port = (p # "" /\ p # DefaultPort(scheme)),
                         !.port = IF p = DefaultPort(scheme) THEN "" ELSE p]
  IN IF h = "" \/ ~AllIn(p, Digits)
     THEN [ok |-> FALSE, url |-> NoUrl]
     ELSE [ok |-> TRUE, url |-> PathAndQuery(u, Rest(s, e), IsSpecial(scheme))]

\* str::trim_start_matches('/')
RECURSIVE SkipSlashes(_)
SkipSlashes(s) ==
  IF s # "" /\ CharAt(s, 1) = "/" THEN SkipSlashes(Rest(s, 2)) ELSE s

\* Url::parse(s): Err when there is no scheme (a relative URL without a
\* base), when a special scheme has an empty host, or when the port is not
\* a number.  The scheme and the host are lower-cased, the default port of
\* the scheme is dropped, the empty path of a special URL becomes "/".
ParseUrl(s) ==
  LET c == IndexOf(s, ":")
      scheme == to_lowercase(SubSeq(s, 1, c - 1))
      rest == Rest(s, c + 1)
  IN IF c = 0 \/ ~ValidScheme(SubSeq(s, 1, c - 1))
     THEN [ok |-> FALSE, url |-> NoUrl]
     ELSE IF IsSpecial(scheme)
     THEN ParseAuthority(scheme, SkipSlashes(rest))
     ELSE IF starts_with(rest, "//")
     THEN ParseAuthority(scheme, Rest(rest, 3))
     ELSE [ok |-> TRUE,
           url |-> PathAndQuery([NoUrl EXCEPT !.scheme = scheme], rest, FALSE)]

\* Url::host().to_string(), defined when has_host.
host(u) == u.host

\* Url::path()
path(u) == u.path

\* Url::as_str() / to_string(): the serialization.
as_str(u) ==
  u.scheme \o ":"
    \o (IF u.has_host THEN "//" \o u.host ELSE "")
    \o (IF u.has_port THEN ":" \o u.port ELSE "")
    \o u.path
    \o (IF u.has_query THEN "?" \o u.query ELSE "")

\* Inverse of the %XX escapes, for percent-decoding.
DecodeAt(s, i) ==
  LET code == SubSeq(s, i, i + 2)
      hit == {j \in 1..Len(Escapes) : Escapes[j][2] = code}
  IN IF CharAt(s, i) = "%" /\ hit # {}
     THEN [char |-> Escapes[CHOOSE j \in hit : TRUE][1], next |-> i + 3]
     ELSE IF CharAt(s, i) = "+" THEN [char |-> " ", next |-> i + 1]
     ELSE [char |-> CharAt(s, i), next |-> i + 1]

\* form_urlencoded decoding of one name or value: "+" is a space and %XX
\* is the escaped character.
RECURSIVE FormDecodeFrom(_, _)
FormDecodeFrom(s, i) ==
  IF i > Len(s) THEN ""
  ELSE LET d == DecodeAt(s, i) IN d.char \o FormDecodeFrom(s, d.next)

FormDecode(s) == FormDecodeFrom(s, 1)

RECURSIVE PairsOf(_)
PairsOf(pieces) ==
  IF Len(pieces) = 0 THEN <<>>
  ELSE LET piece == pieces[1]
           e == IndexOf(piece, "=")
           k == IF e = 0 THEN piece ELSE SubSeq(piece, 1, e - 1)
           v == IF e = 0 THEN "" ELSE Rest(piece, e + 1)
       IN (IF piece = "" THEN <<>> ELSE << <<FormDecode(k), FormDecode(v)>> >>)
            \o PairsOf(Tail(pieces))

\* Url::query_pairs(): the decoded (name, value) pairs of the query, in the
\* order of the URL; empty pieces between "&" are skipped.
query_pairs(u) == IF u.has_query THEN PairsOf(split(u.query, "&")) ELSE <<>>

(***************************************************************************)
(* chrono: DateTime<Utc>::format.                                          *)
(***************************************************************************)
\* The UTC days of the model, as %Y%m%d; day 1 starts at instant 0.
Days == <<"20220202", "20220203", "20220204">>

TwoDigits(n) == CharAt(Digits, (n \div 10) + 1) \o CharAt(Digits, (n % 10) + 1)

\* format(SHORT_DATE_FMT), "%Y%m%d"
FormatShort(t) == Days[(t \div 86400) + 1]

\* format(LONG_DATETIME_FMT), "%Y%m%dT%H%M%SZ"
FormatLong(t) ==
  LET s == t % 86400
  IN FormatShort(t) \o "T" \o TwoDigits(s \div 3600)
       \o TwoDigits((s % 3600) \div 60) \o TwoDigits(s % 60) \o "Z"

(***************************************************************************)
(* sha2, hmac, hex.                                                        *)
(***************************************************************************)
\* Sha256::digest(s): a collision-free digest of s, as raw bytes.
Sha256(s) == "sha256<" \o s \o ">"

\* Hmac::<Sha256>::new_from_slice(key), update(msg), finalize(): a
\* collision-free MAC of msg under key, as raw bytes.  new_from_slice
\* accepts a key of any length, so it never returns Err.
HmacSha256(key, msg) == "hmac<" \o key \o "|" \o msg \o ">"

\* hex::encode(bytes): the hex digits of the bytes, which differ from the
\* bytes themselves.
HexEncode(bytes) == "hex<" \o bytes \o ">"

\* u64::to_string
RECURSIVE Decimal(_)
Decimal(n) ==
  IF n < 10 THEN CharAt(Digits, n + 1)
  ELSE Decimal(n \div 10) \o CharAt(Digits, (n % 10) + 1)

(***************************************************************************)
(* src/src/lib.rs                                                          *)
(***************************************************************************)
RECURSIVE EncodedPairs(_)
EncodedPairs(pairs) ==
  IF Len(pairs) = 0 THEN <<>>
  ELSE << <<url_encode(pairs[1][1]), url_encode(pairs[1][2])>> >>
         \o EncodedPairs(Tail(pairs))

\* map.iter().map(|(k, v)| format!("{}={}", k, v)).collect()
RECURSIVE KeyValueStrings(_, _)
KeyValueStrings(m, ks) ==
  IF Len(ks) = 0 THEN <<>>
  ELSE <<ks[1] \o "=" \o m[ks[1]]>> \o KeyValueStrings(m, Tail(ks))

\* canonical_query_string with the pairs kept in a Vec, in URL order,
\* instead of a BTreeMap.
canonical_query_string_url_order(uri) ==
  LET pairs == EncodedPairs(query_pairs(uri))
  IN join([i \in 1..Len(pairs) |-> pairs[i][1] \o "=" \o pairs[i][2]], "&")

canonical_query_string(uri) ==
  LET qs == insert_all(EmptyMap, EncodedPairs(query_pairs(uri)))
      kv == KeyValueStrings(qs, keys(qs))
  IN join(kv, "&")

\* The filter of canonical_header_string and signed_header_string, on the
\* lower-cased key.
\* The filter as the doc comments of the two functions describe it, with
\* content-length let through.
IsSignedHeader_content_length(k) ==
  starts_with(k, "x-amz-") \/ k = "host" \/ k = "content-length"

IsSignedHeader(k) == starts_with(k, "x-amz-") \/ k = "host"

RECURSIVE HeaderLines(_, _)
HeaderLines(headers, ks) ==
  IF Len(ks) = 0 THEN <<>>
  ELSE LET k == to_lowercase(ks[1])
       IN (IF IsSignedHeader(k)
           THEN <<k \o ":" \o trim(headers[ks[1]])>>
           ELSE <<>>)
            \o HeaderLines(headers, Tail(ks))

\* The Vec<String> that canonical_header_string joins.
header_key_values(headers) == HeaderLines(headers, keys(headers))

canonical_header_string(headers) == join(header_key_values(headers), "\n")

RECURSIVE HeaderNames(_)
HeaderNames(ks) ==
  IF Len(ks) = 0 THEN <<>>
  ELSE LET k == to_lowercase(ks[1])
       IN (IF IsSignedHeader(k) THEN <<k>> ELSE <<>>) \o HeaderNames(Tail(ks))

\* The Vec<String> that signed_header_string joins.
signed_header_keys(headers) == HeaderNames(keys(headers))

signed_header_string(headers) == join(signed_header_keys(headers), ";")

\* canonical_request with the empty line moved behind the signed-header
\* names.
canonical_request_blank_last(method, url, headers, payload_sha256) ==
  method \o "\n"
    \o to_lowercase(path(url)) \o "\n"
    \o canonical_query_string(url) \o "\n"
    \o canonical_header_string(headers) \o "\n"
    \o signed_header_string(headers) \o "\n\n"
    \o payload_sha256

canonical_request(method, url, headers, payload_sha256) ==
  method \o "\n"
    \o to_lowercase(path(url)) \o "\n"
    \o canonical_query_string(url) \o "\n"
    \o canonical_header_string(headers) \o "\n\n"
    \o signed_header_string(headers) \o "\n"
    \o payload_sha256

scope_string(date_time, region) ==
  FormatShort(date_time) \o "/" \o region \o "/s3/aws4_request"

string_to_sign(date_time, region, canonical_req) ==
  "AWS4-HMAC-SHA256\n"
    \o FormatLong(date_time) \o "\n"
    \o scope_string(date_time, region) \o "\n"
    \o HexEncode(Sha256(canonical_req))

\* signing_key with every stage keyed by the hex text of the previous
\* stage's output instead of its bytes.
signing_key_hex_stages(date_time, secret_key, region, service) ==
  LET secret == "AWS4" \o secret_key
      date_hmac == HmacSha256(secret, FormatShort(date_time))
      region_hmac == HmacSha256(HexEncode(date_hmac), region)
      service_hmac == HmacSha256(HexEncode(region_hmac), service)
      signing_hmac == HmacSha256(HexEncode(service_hmac), "aws4_request")
  IN signing_hmac

signing_key(date_time, secret_key, region, service) ==
  LET secret == "AWS4" \o secret_key
      date_hmac == HmacSha256(secret, FormatShort(date_time))
      region_hmac == HmacSha256(date_hmac, region)
      service_hmac == HmacSha256(region_hmac, service)
      signing_hmac == HmacSha256(service_hmac, "aws4_request")
  IN signing_hmac

authorization_header(access_key, date_time, region, signed_headers, signature) ==
  "AWS4-HMAC-SHA256 Credential=" \o access_key \o "/"
    \o scope_string(date_time, region)
    \o ",SignedHeaders=" \o signed_headers
    \o ",Signature=" \o signature

\* What one call computed: the Result (ok, value or error) and the values
\* it built on the way, kept for observation.
NoRun ==
  [ok |-> FALSE, value |-> "", error |-> "", canonical |-> "",
   string_to_sign |-> "", key_date_time |-> 0, key_region |-> "",
   key_service |-> "", key_secret |-> "", signing_key |-> "",
   query |-> "", credentials |-> ""]

Err(msg) == [NoRun EXCEPT !.error = msg]

sign(method, payload_hash, url_string, headers, date_time, secret, region, service) ==
  LET parsed == ParseUrl(url_string)
      url == parsed.url
      canonical == canonical_request(method, url, headers, payload_hash)
      sts == string_to_sign(date_time, "us-east-1", canonical)
      key == signing_key(date_time, secret, region, service)
  IN IF ~parsed.ok THEN Err("error parsing url")
     ELSE [NoRun EXCEPT !.ok = TRUE,
                        !.value = HexEncode(HmacSha256(key, sts)),
                        !.canonical = canonical,
                        !.string_to_sign = sts,
                        !.key_date_time = date_time,
                        !.key_region = region,
                        !.key_service = service,
                        !.key_secret = secret,
                        !.signing_key = key]

\* The five fixed query parameters of a pre-signed URL.
fixed_params(credentials, date_time_txt, expiration) ==
  insert_all(EmptyMap,
             << <<"X-Amz-Algorithm", "AWS4-HMAC-SHA256">>,
                <<"X-Amz-Credential", credentials>>,
                <<"X-Amz-Date", date_time_txt>>,
                <<"X-Amz-Expires", Decimal(expiration)>>,
                <<"X-Amz-SignedHeaders", "host">> >>)

\* params.iter().map(|(k, v)| format!("{}={}", url_encode(k), url_encode(v)))
RECURSIVE EncodedKeyValueStrings(_, _)
EncodedKeyValueStrings(m, ks) ==
  IF Len(ks) = 0 THEN <<>>
  ELSE <<url_encode(ks[1]) \o "=" \o url_encode(m[ks[1]])>>
         \o EncodedKeyValueStrings(m, Tail(ks))

\* The parameter map of pre_signed_url: the fixed parameters, then one
\* insert per query pair of the URL.
presign_params(credentials, date_time_txt, expiration, url) ==
  insert_all(fixed_params(credentials, date_time_txt, expiration),
             query_pairs(url))

pre_signed_url(access, secret, expiration, url, method, payload_hash, region, date_time, service) ==
  LET date_time_txt == FormatLong(date_time)
      short_date_time_txt == FormatShort(date_time)
      credentials ==
        access \o "/" \o short_date_time_txt \o "/" \o region \o "/s3/aws4_request"
      params == presign_params(credentials, date_time_txt, expiration, url)
      cqs == join(EncodedKeyValueStrings(params, keys(params)), "&")
      canonical_resource == path(url)
      canonical_headers == "host:" \o host(url)
      signed_headers == "host"
      canonical ==
        method \o "\n" \o canonical_resource \o "\n" \o cqs \o "\n"
          \o canonical_headers \o "\n\n" \o signed_headers \o "\n" \o payload_hash
      sts == string_to_sign(date_time, region, canonical)
      key == signing_key(date_time, secret, region, service)
      signature == HexEncode(HmacSha256(key, sts))
      request_url == as_str(url) \o "?" \o cqs \o "&X-Amz-Signature=" \o signature
  IN IF ~url.has_host THEN Err("Error parsing host from url")
     ELSE [NoRun EXCEPT !.ok = TRUE,
                        !.value = request_url,
                        !.canonical = canonical,
                        !.string_to_sign = sts,
                        !.key_date_time = date_time,
                        !.key_region = region,
                        !.key_service = service,
                        !.key_secret = secret,
                        !.signing_key = key,
                        !.query = cqs,
                        !.credentials = credentials]

(***************************************************************************)
(* Inputs of the model.                                                    *)
(***************************************************************************)
Methods == {"PUT", "get"}
PayloadHashes == {"UNSIGNED-PAYLOAD"}
Regions == {"us-east-1", "eu-west-2"}
Services == {"s3", "ec2"}
Secrets == {"sk"}
AccessKeys == {"AK"}
Expirations == {0, 10000}
\* Two instants of 2022-02-02 and the first of 2022-02-03.
DateTimes == {0, 86399, 86400}

UrlStrings ==
  { "https://play.min.io/bucket/key",
    "https://h:9000/b/Key?b=2&a=1",
    "https://h:9000/b/Key?a=1&b=2",
    "https://h:443/b/k/",
    "http://H/b?a=1&a=2",
    "http://H/b?a=3&a=2",
    "https://h/b?X-Amz-Date=x&a=b/",
    "https://h/k?",
    "https://h/k?a+b=c%2Fd&a-b=e",
    "https://h",
    "unix:/run/s",
    "bucket/key",
    "https://" }

\* The URLs a caller can hand to signature() and pre_signed_url(): those
\* Url::parse accepts.
Urls == {s \in UrlStrings : ParseUrl(s).ok}

\* Header names and values a caller may put into the HeadersMap of sign().
HeaderValue(k) ==
  CASE k = "host" -> "aws.com"
    [] k = "Host" -> " h "
    [] k = "x-amz-content-sha256" -> "UNSIGNED-PAYLOAD"
    [] k = "X-Amz-Date" -> "20220202T000000Z"
    [] k = "content-length" -> "3"
    [] k = "x-amzn-id" -> "1"

HeaderKeys ==
  {"host", "Host", "x-amz-content-sha256", "X-Amz-Date", "content-length",
   "x-amzn-id"}

HeaderSets ==
  { [k \in K |-> HeaderValue(k)] :
      K \in {S \in SUBSET HeaderKeys : Cardinality(S) <= MaxHeaders} }

NoCall ==
  [fn |-> "", method |-> "", payload_hash |-> "", url_string |-> "",
   headers |-> EmptyMap, date_time |-> 0, access |-> "", secret |-> "",
   region |-> "", service |-> "", expiration |-> 0]

\* The header set of the known-vector test (tests::test_signature).
VectorHeaders ==
  [k \in {"host", "x-amz-content-sha256"} |-> HeaderValue(k)]

SignCall(m, p, u, h, d, k, r, sv) ==
  [NoCall EXCEPT !.fn = "sign", !.method = m, !.payload_hash = p,
                 !.url_string = u, !.headers = h, !.date_time = d,
                 !.secret = k, !.region = r, !.service = sv]

\* The calls of sign(): every method, URL and header set under the date,
\* region and service of the known-vector test, and every method, URL, date,
\* region and service under the header set of that test.  (The canonical
\* request does not read the date, region or service, and the scope and the
\* key do not read the headers.)
SignCalls ==
  { SignCall(m, p, u, h, 0, k, "us-east-1", "s3") :
      m \in Methods, p \in PayloadHashes, u \in UrlStrings, h \in HeaderSets,
      k \in Secrets }
  \cup
  { SignCall(m, p, u, VectorHeaders, d, k, r, sv) :
      m \in Methods, p \in PayloadHashes, u \in UrlStrings, d \in DateTimes,
      k \in Secrets, r \in Regions, sv \in Services }

SignatureCalls ==
  { [NoCall EXCEPT !.fn = "signature", !.url_string = u, !.method = m,
                   !.access = a, !.secret = k, !.region = r, !.service = sv,
                   !.payload_hash = p] :
      u \in Urls, m \in Methods, a \in AccessKeys, k \in Secrets,
      r \in Regions, sv \in Services, p \in PayloadHashes }

PreSignedUrlCalls ==
  { [NoCall EXCEPT !.fn = "pre_signed_url", !.access = a, !.secret = k,
                   !.expiration = e, !.url_string = u, !.method = m,
                   !.payload_hash = p, !.region = r, !.date_time = d,
                   !.service = sv] :
      a \in AccessKeys, k \in Secrets, e \in Expirations, u \in Urls,
      m \in Methods, p \in PayloadHashes, r \in Regions, d \in DateTimes,
      sv \in Services }

(***************************************************************************)
(* State.                                                                  *)
(*   call  the entry point called and its arguments                        *)
(*   pc    position in the call: "call", the steps of signature(), "done"  *)
(*   now   the UTC clock, Utc::now()                                       *)
(*   st    the locals of the call                                          *)
(*   ret   the value returned to the caller                                *)
(***************************************************************************)
NoSt ==
  [host_port |-> "", method |-> "", uri |-> "", headers |-> EmptyMap,
   date_time |-> 0, date_time_string |-> "", clock_reads |-> 0,
   run |-> NoRun]

NoRet == [status |-> "none", value |-> "", date_time |-> "", error |-> ""]

Ok(v, dt) == [NoRet EXCEPT !.status = "ok", !.value = v, !.date_time = dt]

Failed(msg) == [NoRet EXCEPT !.status = "err", !.error = msg]

\* The Result a finished run hands back.
Returned(run) == IF run.ok THEN Ok(run.value, "") ELSE Failed(run.error)

\* The Url the caller parsed before calling signature() or pre_signed_url().
CallUrl == ParseUrl(call.url_string).url

Init ==
  /\ call \in SignCalls \cup SignatureCalls \cup PreSignedUrlCalls
  /\ pc = "call"
  /\ now = 86400 - MaxTicks
  /\ st = NoSt
  /\ ret = NoRet

\* sign(), lines 169-189.
DoSign ==
  /\ pc = "call"
  /\ call.fn = "sign"
  /\ \E run \in {sign(call.method, call.payload_hash, call.url_string,
                       call.headers, call.date_time, call.secret, call.region,
                       call.service)} :
       /\ st' = [NoSt EXCEPT !.run = run]
       /\ ret' = Returned(run)
  /\ pc' = "done"
  /\ UNCHANGED <<call, now>>

\* pre_signed_url(), lines 249-316.
DoPreSignedUrl ==
  /\ pc = "call"
  /\ call.fn = "pre_signed_url"
  /\ \E url \in {CallUrl} :
       \E run \in {pre_signed_url(call.access, call.secret, call.expiration,
                                  url, call.method, call.payload_hash,
                                  call.region, call.date_time, call.service)} :
         /\ st' = [NoSt EXCEPT !.run = run]
         /\ ret' = Returned(run)
  /\ pc' = "done"
  /\ UNCHANGED <<call, now>>

\* url.port_or_known_default() in place of url.port(): the port of the
\* scheme when the URL names none.
host_port_known_default(url) ==
  host(url) \o ":" \o (IF url.has_port THEN url.port ELSE DefaultPort(url.scheme))

\* signature(), lines 207-212: the host, followed by ":port" when
\* url.port() is Some.
host_port(url) ==
  host(url) \o (IF url.has_port THEN ":" \o url.port ELSE "")

\* signature() with url.host() unwrapped to an empty name instead of
\* returned as Err.
SigHost_no_host_check ==
  /\ pc = "call"
  /\ call.fn = "signature"
  /\ \E url \in {CallUrl} :
       st' = [st EXCEPT !.host_port = host_port(url),
                       !.method = to_uppercase(call.method),
                       !.uri = trim_end_matches(as_str(url), "/"),
                       !.headers =
                         insert(insert(EmptyMap, "host", host_port(url)),
                                "x-amz-content-sha256", call.payload_hash)]
  /\ pc' = "now"
  /\ UNCHANGED <<call, now, ret>>

\* signature(), lines 206-220: the host header, the method, the URL text
\* and the first two headers; Err when the URL has no host.
SigHost ==
  /\ pc = "call"
  /\ call.fn = "signature"
  /\ \E url \in {CallUrl} :
       IF ~url.has_host
       THEN /\ ret' = Failed("Error parsing host from url")
            /\ pc' = "done"
            /\ st' = st
       ELSE /\ st' = [st EXCEPT !.host_port = host_port(url),
                                !.method = to_uppercase(call.method),
                                !.uri = trim_end_matches(as_str(url), "/"),
                                !.headers =
                                  insert(insert(EmptyMap, "host", host_port(url)),
                                         "x-amz-content-sha256",
                                         call.payload_hash)]
            /\ pc' = "now"
            /\ ret' = ret
  /\ UNCHANGED <<call, now>>

\* signature(), lines 221-223: Utc::now() and the x-amz-date header.
SigNow ==
  /\ pc = "now"
  /\ LET date_time == now
         date_time_string == FormatLong(date_time)
     IN st' = [st EXCEPT !.date_time = date_time,
                         !.date_time_string = date_time_string,
                         !.clock_reads = @ + 1,
                         !.headers = insert(@, "x-amz-date", date_time_string)]
  /\ pc' = "sign"
  /\ UNCHANGED <<call, now, ret>>

\* signature(), lines 224-233: the call of sign(), whose Err is returned.
SigSign ==
  /\ pc = "sign"
  /\ \E run \in {sign(st.method, call.payload_hash, st.uri, st.headers,
                       st.date_time, call.secret, call.region, call.service)} :
       /\ st' = [st EXCEPT !.run = run]
       /\ IF run.ok
          THEN pc' = "auth" /\ ret' = ret
          ELSE pc' = "done" /\ ret' = Failed(run.error)
  /\ UNCHANGED <<call, now>>

\* signature() with a second Utc::now() for the Authorization header.
SigAuth_second_now ==
  /\ pc = "auth"
  /\ LET auth == authorization_header(call.access, now, call.region,
                                      signed_header_string(st.headers),
                                      st.run.value)
     IN ret' = Ok(auth, st.date_time_string)
  /\ pc' = "done"
  /\ st' = [st EXCEPT !.clock_reads = @ + 1]
  /\ UNCHANGED <<call, now>>

\* signature(), lines 234-244: the Authorization header and the result.
SigAuth ==
  /\ pc = "auth"
  /\ LET auth == authorization_header(call.access, st.date_time, call.region,
                                      signed_header_string(st.headers),
                                      st.run.value)
     IN ret' = Ok(auth, st.date_time_string)
  /\ pc' = "done"
  /\ UNCHANGED <<call, now, st>>

\* The UTC clock advances by a second while signature() runs.
Tick ==
  /\ call.fn = "signature"
  /\ pc # "done"
  /\ now < 86400
  /\ now' = now + 1
  /\ UNCHANGED <<call, pc, st, ret>>

Next ==
  \/ DoSign
  \/ DoPreSignedUrl
  \/ SigHost
  \/ SigNow
  \/ SigSign
  \/ SigAuth
  \/ Tick

Spec == Init /\ [][Next]_vars

(***************************************************************************)
(* Observations on a finished call, read off the values it produced.       *)
(***************************************************************************)
\* sign() has run to its end in this call (directly or inside signature()).
SignRan == call.fn \in {"sign", "signature"} /\ st.run.ok

\* pre_signed_url() has returned a URL.
PreSigned == call.fn = "pre_signed_url" /\ pc = "done" /\ st.run.ok

\* signature() has returned a Signature.
SignatureReturned == call.fn = "signature" /\ pc = "done" /\ ret.status = "ok"

\* The arguments sign() was called with in this call.
SignMethod == IF call.fn = "sign" THEN call.method ELSE st.method
SignUrlString == IF call.fn = "sign" THEN call.url_string ELSE st.uri
SignHeaders == IF call.fn = "sign" THEN call.headers ELSE st.headers

Smallest(S) == CHOOSE i \in S : \A j \in S : i <= j

\* 1-based index of the first occurrence of the text p in s, 0 when there
\* is none.
Find(s, p) ==
  LET hits == {i \in 1..(Len(s) - Len(p) + 1) : SubSeq(s, i, i + Len(p) - 1) = p}
  IN IF hits = {} THEN 0 ELSE Smallest(hits)

\* The pieces of s between the occurrences of character c.
RECURSIVE Pieces(_, _)
Pieces(s, c) ==
  LET i == Find(s, c)
  IN IF i = 0 THEN <<s>>
     ELSE <<SubSeq(s, 1, i - 1)>> \o Pieces(Rest(s, i + 1), c)

Lines(s) == Pieces(s, "\n")

\* Number of occurrences of character c in s.
CountChar(s, c) == Cardinality({i \in 1..Len(s) : CharAt(s, i) = c})

\* The text of s after the first occurrence of p up to the next character
\* c (or the end of s); "" when p does not occur.
AfterUpTo(s, p, c) ==
  LET i == Find(s, p)
      r == Rest(s, i + Len(p))
      e == Find(r, c)
  IN IF i = 0 THEN ""
     ELSE IF e = 0 THEN r
     ELSE SubSeq(r, 1, e - 1)

\* The scope that the key derivation of this call stands for: the short
\* date, region and service that were passed to signing_key.
KeyScope(run) ==
  FormatShort(run.key_date_time) \o "/" \o run.key_region \o "/"
    \o run.key_service \o "/aws4_request"

\* The scope that follows "{access}/" in Credential= of an Authorization
\* header.
CredentialScope(auth_header, access) ==
  AfterUpTo(auth_header, "Credential=" \o access \o "/", ",")

\* The decoded value of query parameter name in the query string q.
QueryValue(q, name) == FormDecode(AfterUpTo("&" \o q, "&" \o name \o "=", "&"))

\* The scope line (third line) of a string-to-sign.
ScopeLine(sts) == Lines(sts)[3]

(***************************************************************************)
(* C1.  Scope consistency: the scope after the access key in Credential=   *)
(* of the Authorization header returned by signature(), and in             *)
(* X-Amz-Credential of the URL returned by pre_signed_url(), is            *)
(* {short-date}/{region}/{service}/aws4_request for the date, region and   *)
(* service passed to signing_key in that call.                             *)
(* The code writes "s3" into the scope whatever the service argument is.   *)
(***************************************************************************)
C1_ScopeConsistency ==
  /\ SignatureReturned =>
       CredentialScope(ret.value, call.access) = KeyScope(st.run)
  /\ PreSigned =>
       QueryValue(st.run.query, "X-Amz-Credential")
         = call.access \o "/" \o KeyScope(st.run)

(***************************************************************************)
(* C2.  In every call of sign() the scope line of the string-to-sign       *)
(* carries the region argument, the region passed to signing_key.          *)
(* The code passes the literal "us-east-1" to string_to_sign.              *)
(***************************************************************************)
C2_SignScopeRegion ==
  SignRan =>
    /\ Pieces(ScopeLine(st.run.string_to_sign), "/")[2] = call.region
    /\ Pieces(ScopeLine(st.run.string_to_sign), "/")[2] = st.run.key_region

(***************************************************************************)
(* C3.  When the URL given to pre_signed_url() carries a query parameter   *)
(* named like a fixed key, the signed canonical query string and the       *)
(* returned URL carry the value pre_signed_url computed for that key.      *)
(* The code inserts the caller's pairs after the fixed ones, and           *)
(* BTreeMap::insert replaces the value of a present key.                   *)
(***************************************************************************)
FixedKeys ==
  {"X-Amz-Algorithm", "X-Amz-Credential", "X-Amz-Date", "X-Amz-Expires",
   "X-Amz-SignedHeaders"}

\* The value pre_signed_url() computes for a fixed key in this call.
FixedValue(k) ==
  CASE k = "X-Amz-Algorithm" -> "AWS4-HMAC-SHA256"
    [] k = "X-Amz-Credential" ->
         call.access \o "/" \o FormatShort(call.date_time) \o "/"
           \o call.region \o "/s3/aws4_request"
    [] k = "X-Amz-Date" -> FormatLong(call.date_time)
    [] k = "X-Amz-Expires" -> Decimal(call.expiration)
    [] k = "X-Amz-SignedHeaders" -> "host"

\* The canonical query string (third line) of a canonical request.
QueryLine(canonical) == Lines(canonical)[3]

\* The query that pre_signed_url() appended: the text of the returned URL
\* between the "?" it added and "&X-Amz-Signature=".
AppendedQuery ==
  LET tail == Rest(ret.value, Len(as_str(CallUrl)) + 2)
      cut == Len(tail) - Len("&X-Amz-Signature=" \o
                             HexEncode(HmacSha256(st.run.signing_key,
                                                  st.run.string_to_sign)))
  IN SubSeq(tail, 1, cut)

C3_FixedValueWins ==
  PreSigned =>
    \A k \in FixedKeys :
      /\ QueryValue(QueryLine(st.run.canonical), k) = FixedValue(k)
      /\ QueryValue(AppendedQuery, k) = FixedValue(k)

(***************************************************************************)
(* C4.  The canonical request consists of these newline-separated parts,   *)
(* in this order: method, lower-cased path, canonical query string,        *)
(* canonical header block, one empty line, signed-header names,            *)
(* payload-hash token.  (The empty line stands between the header block    *)
(* and the signed-header names.)                                           *)
(***************************************************************************)
SignUrl == ParseUrl(SignUrlString).url

C4_CanonicalShape ==
  SignRan =>
    st.run.canonical =
      join(<<SignMethod,
             to_lowercase(path(SignUrl)),
             canonical_query_string(SignUrl),
             canonical_header_string(SignHeaders),
             "",
             signed_header_string(SignHeaders),
             call.payload_hash>>, "\n")

\* C4 as first stated: the empty line comes after the signed-header names,
\* directly before the payload hash.
C4_BlankBeforePayload ==
  SignRan =>
    st.run.canonical =
      join(<<SignMethod,
             to_lowercase(path(SignUrl)),
             canonical_query_string(SignUrl),
             canonical_header_string(SignHeaders),
             signed_header_string(SignHeaders),
             "",
             call.payload_hash>>, "\n")

C4_Witness ==
  /\ SignRan
  /\ pc = "done"
  /\ call.fn = "sign"
  /\ call.url_string = "https://h:9000/b/Key?b=2&a=1"
  /\ call.headers = VectorHeaders

(***************************************************************************)
(* C5.  Header filtering: a header of the header set whose lower-cased     *)
(* name is neither "host" nor starts with "x-amz-" appears neither in the  *)
(* canonical header block nor in the signed-header list of the canonical   *)
(* request, and every header whose lower-cased name is "host" or starts    *)
(* with "x-amz-" appears in both.                                          *)
(***************************************************************************)
\* The lines of the canonical header block of a canonical request: what
\* lies between the query line and the empty line.
HeaderBlockLines(canonical) ==
  LET l == Lines(canonical) IN SubSeq(l, 4, Len(l) - 3)

\* The names of the signed-header line of a canonical request.
SignedNames(canonical) ==
  LET l == Lines(canonical) IN Pieces(l[Len(l) - 1], ";")

PairsOfUrlString(u) == query_pairs(ParseUrl(u).url)

DistinctKeys(pairs) ==
  \A i, j \in 1..Len(pairs) : i # j => pairs[i][1] # pairs[j][1]

PairSet(pairs) == {pairs[i] : i \in 1..Len(pairs)}

\* u2 parses and carries the pairs of u1, keys pairwise distinct, in
\* another order.
Reordered(u1, u2) ==
  /\ ParseUrl(u2).ok
  /\ DistinctKeys(PairsOfUrlString(u1))
  /\ Len(PairsOfUrlString(u1)) = Len(PairsOfUrlString(u2))
  /\ PairSet(PairsOfUrlString(u1)) = PairSet(PairsOfUrlString(u2))
  /\ PairsOfUrlString(u1) # PairsOfUrlString(u2)

\* u1 and u2 are the same URL up to the query.
SameButQuery(u1, u2) ==
  [ParseUrl(u1).url EXCEPT !.query = ""] = [ParseUrl(u2).url EXCEPT !.query = ""]

\* The key=value pieces of a canonical query string.
QueryPieces(q) == IF q = "" THEN <<>> ELSE Pieces(q, "&")

PieceKey(piece) == SubSeq(piece, 1, Find(piece, "=") - 1)

C6_QueryOrdering ==
  (SignRan /\ call.fn = "sign") =>
    LET q == QueryLine(st.run.canonical)
        pieces == QueryPieces(q)
        pairs == PairsOfUrlString(call.url_string)
    IN /\ DistinctKeys(pairs) =>
            /\ Len(pieces) = Len(pairs)
            /\ {pieces[i] : i \in 1..Len(pieces)}
                 = {url_encode(kv[1]) \o "=" \o url_encode(kv[2]) : kv \in PairSet(pairs)}
            /\ \A i \in 1..(Len(pieces) - 1) :
                 StrLess(PieceKey(pieces[i]), PieceKey(pieces[i + 1]))
       /\ \A u2 \in UrlStrings :
            Reordered(call.url_string, u2) =>
              LET other == sign(call.method, call.payload_hash, u2,
                                call.headers, call.date_time, call.secret,
                                call.region, call.service)
              IN /\ QueryLine(other.canonical) = q
                 /\ SameButQuery(call.url_string, u2) => other.value = ret.value

C6_Witness ==
  /\ SignRan
  /\ call.fn = "sign"
  /\ call.url_string = "https://h:9000/b/Key?b=2&a=1"
  /\ QueryLine(st.run.canonical) = "a=1&b=2"

(***************************************************************************)
(* C7.  pre_signed_url() returns the original URL followed by exactly one  *)
(* query string: the result holds a single "?", and what follows it is     *)
(* the canonical query string that was signed, each key once, followed by  *)
(* "&X-Amz-Signature=" and the signature.                                  *)
(* The code appends "?" and the query to url.to_string(), which already    *)
(* holds the "?" and the query of the input URL.                           *)
(***************************************************************************)
C7_SingleQueryString ==
  PreSigned =>
    LET v == ret.value
        signature == HexEncode(HmacSha256(st.run.signing_key,
                                          st.run.string_to_sign))
        pieces == QueryPieces(QueryLine(st.run.canonical))
    IN /\ CountChar(v, "?") = 1
       /\ Rest(v, Find(v, "?") + 1)
            = QueryLine(st.run.canonical) \o "&X-Amz-Signature=" \o signature
       /\ \A i, j \in 1..Len(pieces) :
            i # j => PieceKey(pieces[i]) # PieceKey(pieces[j])

(***************************************************************************)
(* C8.  Port handling in signature(): the value of the host header put     *)
(* into the signed header set is {hostname}:{port} exactly when the URL    *)
(* names a port that is not the default port of its scheme, and            *)
(* {hostname} otherwise.                                                   *)
(***************************************************************************)
\* Read off the text of the URL: scheme, host name and port as written.
WrittenScheme(u) == to_lowercase(SubSeq(u, 1, Find(u, "://") - 1))

WrittenAuthority(u) ==
  LET r == Rest(u, Find(u, "://") + 3) IN SubSeq(r, 1, AuthorityEnd(r) - 1)

WrittenHost(u) == to_lowercase(AfterUpTo(":" \o WrittenAuthority(u), ":", ":"))

WrittenPort(u) ==
  LET a == WrittenAuthority(u)
  IN IF Contains(a, ":") THEN Rest(a, IndexOf(a, ":") + 1) ELSE ""

ExpectedHostHeader(u) ==
  IF WrittenPort(u) # "" /\ WrittenPort(u) # DefaultPort(WrittenScheme(u))
  THEN WrittenHost(u) \o ":" \o WrittenPort(u)
  ELSE WrittenHost(u)

C8_PortHandling ==
  (call.fn = "signature" /\ "host" \in DOMAIN st.headers) =>
    /\ st.headers["host"] = ExpectedHostHeader(call.url_string)
    /\ st.run.ok =>
         HeaderBlockLines(st.run.canonical)[1]
           = "host:" \o ExpectedHostHeader(call.url_string)

C8_Witness ==
  /\ SignatureReturned
  /\ call.url_string = "https://h:9000/b/Key?a=1&b=2"
  /\ st.headers["host"] = "h:9000"

(***************************************************************************)
(* C9.  One call of signature() reads the UTC clock exactly once, and that *)
(* one reading is the returned Signature.date_time, the x-amz-date header  *)
(* of the canonical request, the timestamp line of the string-to-sign, the *)
(* short date of the scope in the string-to-sign and in Credential=, and   *)
(* the date of the key derivation, also when the clock advances during     *)
(* the call.                                                               *)
(***************************************************************************)
C9_SingleClockReading ==
  SignatureReturned =>
    LET T == ret.date_time
        sts == st.run.string_to_sign
        block == HeaderBlockLines(st.run.canonical)
    IN /\ st.clock_reads = 1
       /\ \E t \in (86400 - MaxTicks)..now : FormatLong(t) = T
       /\ \E i \in 1..Len(block) : block[i] = "x-amz-date:" \o T
       /\ Lines(sts)[2] = T
       /\ Pieces(ScopeLine(sts), "/")[1] = SubSeq(T, 1, 8)
       /\ Pieces(CredentialScope(ret.value, call.access), "/")[1] = SubSeq(T, 1, 8)
       /\ FormatLong(st.run.key_date_time) = T

\* signature() returned after the clock passed midnight between its reading
\* of the clock and its return.
C9_Witness ==
  /\ SignatureReturned
  /\ ret.date_time = "20220202T235959Z"
  /\ now = 86400

(***************************************************************************)
(* C10.  Every failure is a returned error value, never a partial result:  *)
(* signature() and pre_signed_url() return an error, and no Signature or   *)
(* URL, when the URL has no host; sign() returns an error when url_string  *)
(* does not parse; for a URL that parses and has a host all three return   *)
(* a success value.                                                        *)
(***************************************************************************)
C10_ErrorsAreReturned ==
  pc = "done" =>
    /\ ret.status \in {"ok", "err"}
    /\ ret.status = "err" =>
         ret.value = "" /\ ret.date_time = "" /\ ret.error # ""
    /\ ret.status = "ok" => ret.value # "" /\ ret.error = ""
    /\ call.fn = "sign" =>
         (ret.status = "err" <=> ~ParseUrl(call.url_string).ok)
    /\ call.fn \in {"signature", "pre_signed_url"} =>
         (ret.status = "err" <=> ~ParseUrl(call.url_string).url.has_host)
    /\ (call.fn = "signature" /\ ret.status = "ok") => ret.date_time # ""

C10_Witness ==
  /\ pc = "done"
  /\ call.fn = "signature"
  /\ call.url_string = "unix:/run/s"
  /\ ret.status = "err"

(***************************************************************************)
(* C11.  The signing key of a call of sign() or pre_signed_url() is        *)
(* HMAC(HMAC(HMAC(HMAC("AWS4" + secret, short-date), region), service),    *)
(* "aws4_request"), each stage keyed by the raw output of the stage before *)
(* it.  It is therefore the same for every date-time of the same UTC day,  *)
(* and the same whatever the method, URL, headers and payload hash are.    *)
(***************************************************************************)
\* sign() or pre_signed_url() derived a key in this call.
KeyDerived == st.run.ok

\* The date-time handed to signing_key in this call.
KeyDateTime == IF call.fn = "signature" THEN st.date_time ELSE call.date_time

\* The UTC day of a date-time, as the number of the day.
UtcDay(t) == t \div 86400

\* The chain of MACs over the day, region, service and secret, written out.
KeyChain(day, secret, region, service) ==
  "hmac<hmac<hmac<hmac<AWS4" \o secret \o "|" \o Days[day + 1] \o ">|"
    \o region \o ">|" \o service \o ">|aws4_request>"

\* Two requests that differ in method, URL, headers and payload hash.
OtherRequests ==
  { [method |-> "PUT", url_string |-> "https://play.min.io/bucket/key",
     headers |-> VectorHeaders, payload_hash |-> "UNSIGNED-PAYLOAD"],
    [method |-> "get", url_string |-> "https://h:9000/b/Key?b=2&a=1",
     headers |-> EmptyMap, payload_hash |-> "0e"] }

C11_SigningKeyChain ==
  KeyDerived =>
    /\ st.run.signing_key
         = KeyChain(UtcDay(KeyDateTime), call.secret, call.region, call.service)
    /\ \A d \in DateTimes :
         UtcDay(d) = UtcDay(KeyDateTime) =>
           signing_key(d, call.secret, call.region, call.service)
             = st.run.signing_key
    /\ call.fn = "sign" =>
         \A o \in OtherRequests :
           sign(o.method, o.payload_hash, o.url_string, o.headers,
                call.date_time, call.secret, call.region,
                call.service).signing_key = st.run.signing_key
    /\ call.fn = "pre_signed_url" =>
         \A o \in OtherRequests :
           pre_signed_url(call.access, call.secret, call.expiration,
                          ParseUrl(o.url_string).url, o.method, o.payload_hash,
                          call.region, call.date_time,
                          call.service).signing_key = st.run.signing_key

\* pre_signed_url() derived the key of the last second of 2022-02-02.
C11_Witness ==
  /\ PreSigned
  /\ call.date_time = 86399
  /\ call.region = "eu-west-2"
  /\ call.service = "ec2"
  /\ st.run.signing_key
       = "hmac<hmac<hmac<hmac<AWS4sk|20220202>|eu-west-2>|ec2>|aws4_request>"

(***************************************************************************)
(* C12.  Every canonical request that is hashed into a string-to-sign, by  *)
(* sign() (and so by signature()) or by pre_signed_url(), carries the path *)
(* of the URL lower-cased; a URL that differs from the URL of the call     *)
(* only in the letter case of its path gives the same signature.           *)
(* pre_signed_url() writes url.path() as it is.                            *)
(***************************************************************************)
\* The path (second line) of a canonical request.
PathLine(canonical) == Lines(canonical)[2]

\* The signature a run computed from its key and its string-to-sign.
RunSignature(run) == HexEncode(HmacSha256(run.signing_key, run.string_to_sign))

\* The URL with its path in lower case.
LowerPath(url) == [url EXCEPT !.path = to_lowercase(@)]

C12_PathLowerCased ==
  /\ SignRan =>
       /\ PathLine(st.run.canonical) = to_lowercase(path(SignUrl))
       /\ call.fn = "sign" =>
            RunSignature(sign(call.method, call.payload_hash,
                              as_str(LowerPath(SignUrl)), call.headers,
                              call.date_time, call.secret, call.region,
                              call.service))
              = RunSignature(st.run)
  /\ PreSigned =>
       /\ PathLine(st.run.canonical) = to_lowercase(path(CallUrl))
       /\ RunSignature(pre_signed_url(call.access, call.secret,
                                      call.expiration, LowerPath(CallUrl),
                                      call.method, call.payload_hash,
                                      call.region, call.date_time,
                                      call.service))
            = RunSignature(st.run)

(***************************************************************************)
(* C13.  The method line of every canonical request is the upper-case form *)
(* of the method argument of the call: sign(), signature() and             *)
(* pre_signed_url() give for a method in lower or mixed case the canonical *)
(* request and the signature they give for its upper-case form.            *)
(* Only signature() upper-cases the method; sign() and pre_signed_url()    *)
(* write the argument as it is.                                            *)
(***************************************************************************)
\* The method (first line) of a canonical request.
MethodLine(canonical) == Lines(canonical)[1]

C13_MethodUpperCased ==
  /\ (SignRan \/ PreSigned) =>
       MethodLine(st.run.canonical) = to_uppercase(call.method)
  /\ (SignRan /\ call.fn = "sign") =>
       LET upper == sign(to_uppercase(call.method), call.payload_hash,
                         call.url_string, call.headers, call.date_time,
                         call.secret, call.region, call.service)
       IN /\ upper.canonical = st.run.canonical
          /\ upper.value = st.run.value
  /\ PreSigned =>
       LET upper == pre_signed_url(call.access, call.secret, call.expiration,
                                   CallUrl, to_uppercase(call.method),
                                   call.payload_hash, call.region,
                                   call.date_time, call.service)
       IN /\ upper.canonical = st.run.canonical
          /\ upper.value = st.run.value

(***************************************************************************)
(* C14.  For every header set handed to the canonicalizer, whatever the    *)
(* letter case of its keys, the names of the signed-header list are in     *)
(* lower case and strictly ascending (so none occurs twice), and the i-th  *)
(* line of the canonical header block is name:trimmed-value for the i-th   *)
(* name of the list.                                                       *)
(* The code iterates the map in the order of the keys as given and         *)
(* lower-cases afterwards.                                                 *)
(***************************************************************************)
\* The lines of a header block, "" being the block without lines.
BlockLines(block) == IF block = "" THEN <<>> ELSE Pieces(block, "\n")

\* The names of a signed-header list.
ListNames(list) == IF list = "" THEN <<>> ELSE Pieces(list, ";")

\* The trimmed values of the signed headers named name in lower case.
TrimmedValues(headers, name) ==
  {trim(headers[k]) : k \in {x \in DOMAIN headers : to_lowercase(x) = name}}

C14_SignedHeaderOrder ==
  SignRan =>
    LET names == ListNames(signed_header_string(SignHeaders))
        block == BlockLines(canonical_header_string(SignHeaders))
    IN /\ st.run.canonical =
            canonical_request(SignMethod, SignUrl, SignHeaders, call.payload_hash)
       /\ \A i \in 1..Len(names) : names[i] = to_lowercase(names[i])
       /\ \A i \in 1..(Len(names) - 1) : StrLess(names[i], names[i + 1])
       /\ Len(block) = Len(names)
       /\ \A i \in 1..Len(names) :
            \E v \in TrimmedValues(SignHeaders, names[i]) :
              block[i] = names[i] \o ":" \o v

(***************************************************************************)
(* C15.  Duplicate query keys are collapsed: when the query of the URL     *)
(* holds a key more than once, the canonical query string holds that key   *)
(* exactly once, with the value of its last occurrence in the URL, and the *)
(* values of the earlier occurrences do not influence the signature that   *)
(* sign() returns.                                                         *)
(***************************************************************************)
Largest(S) == CHOOSE i \in S : \A j \in S : j <= i

\* The value of the last pair of pairs whose key is k.
LastValue(pairs, k) ==
  pairs[Largest({j \in 1..Len(pairs) : pairs[j][1] = k})][2]

PairKeys(pairs) == {pairs[i][1] : i \in 1..Len(pairs)}

HasDuplicateKey(pairs) == ~DistinctKeys(pairs)

\* u2 parses, is the URL u1 up to the query, and its query holds the keys
\* of u1, each with the last value it has in u1.
SameLastValues(u1, u2) ==
  /\ ParseUrl(u2).ok
  /\ SameButQuery(u1, u2)
  /\ PairKeys(PairsOfUrlString(u1)) = PairKeys(PairsOfUrlString(u2))
  /\ \A k \in PairKeys(PairsOfUrlString(u1)) :
       LastValue(PairsOfUrlString(u1), k) = LastValue(PairsOfUrlString(u2), k)

C15_LastOccurrenceWins ==
  SignRan =>
    LET pairs == PairsOfUrlString(SignUrlString)
        pieces == QueryPieces(QueryLine(st.run.canonical))
    IN /\ \A k \in PairKeys(pairs) :
            /\ Cardinality({i \in 1..Len(pieces) :
                              PieceKey(pieces[i]) = url_encode(k)}) = 1
            /\ \E i \in 1..Len(pieces) :
                 pieces[i] = url_encode(k) \o "=" \o url_encode(LastValue(pairs, k))
       /\ Len(pieces) = Cardinality(PairKeys(pairs))
       /\ call.fn = "sign" =>
            \A u2 \in UrlStrings :
              SameLastValues(call.url_string, u2) =>
                sign(call.method, call.payload_hash, u2, call.headers,
                     call.date_time, call.secret, call.region,
                     call.service).value = ret.value

\* sign() ran on a URL that names the key a twice.
C15_Witness ==
  /\ SignRan
  /\ call.fn = "sign"
  /\ call.url_string = "http://H/b?a=1&a=2"
  /\ HasDuplicateKey(PairsOfUrlString(call.url_string))
  /\ SameLastValues(call.url_string, "http://H/b?a=3&a=2")
  /\ QueryLine(st.run.canonical) = "a=2"

(***************************************************************************)
(* C16.  The host value signed by pre_signed_url() is the host value that  *)
(* signature() signs for the same URL: the only header line of the         *)
(* canonical request of pre_signed_url() is host:{hostname}:{port} for a   *)
(* URL that names a port other than the default port of its scheme, and    *)
(* host:{hostname} for a URL that names no port.                           *)
(* pre_signed_url() writes url.host() alone, without the port.             *)
(***************************************************************************)
C16_PreSignedHostPort ==
  PreSigned =>
    /\ HeaderBlockLines(st.run.canonical)
         = <<"host:" \o ExpectedHostHeader(call.url_string)>>
    /\ HeaderBlockLines(st.run.canonical) = <<"host:" \o host_port(CallUrl)>>
    /\ SignedNames(st.run.canonical) = <<"host">>

(***************************************************************************)
(* C17.  signature() signs the path and the query of the URL it is given:  *)
(* for every url argument, also one whose text ends in "/", the path line  *)
(* of the signed canonical request is the lower-cased url.path() and the   *)
(* query line is the canonical query string of the query pairs of url.     *)
(* signature() strips the "/" characters at the end of the text of the URL *)
(* and has sign() parse what is left.                                      *)
(***************************************************************************)
C17_SignsGivenUrl ==
  (call.fn = "signature" /\ st.run.ok) =>
    /\ PathLine(st.run.canonical) = to_lowercase(path(CallUrl))
    /\ QueryLine(st.run.canonical) = canonical_query_string(CallUrl)

====
